---- MODULE Spec2Model ----
(***************************************************************************)
(* Lifecycle handlers of two Terraform resources:                          *)
(*   "ra"  aws_route53_resolver_rule_association                           *)
(*   "br"  RDS instance automated backup replication                       *)
(* One local record d (schema.ResourceData), one remote object, one        *)
(* handler running at a time (pc is its position).  Time is counted in     *)
(* units of 5 seconds.                                                     *)
(***************************************************************************)
EXTENDS Integers, Sequences, FiniteSets, TLC

VARIABLES
    kind,       \* which resource this run is about: "ra" or "br"
    config,     \* the attributes the configuration asks for
    d,          \* schema.ResourceData: [id, isNew, attrs]
    remote,     \* the remote object: {} when absent, {obj} when present
    pc,         \* position of the running handler, "idle" when none runs
    op,         \* the handler that runs or ran last
    timeout,    \* d.Timeout(...) of the running handler
    now,        \* time since WaitForStateContext started
    wait,       \* the poller's current retry interval
    notfoundTick, \* the poller's count of consecutive empty refreshes
    look,       \* the last lookup by ID: the SDK response and what find made of it
    result,     \* the poller's `result`: what the last refresh returned
    waited,     \* what WaitForStateContext returned to the handler
    diags,      \* what the handler returned
    trace,      \* the steps the running handler has taken, in order
    id0,        \* d.Id() when the handler was invoked
    created     \* the identifier the create call of this invocation returned

vars == <<kind, config, d, remote, pc, op, timeout, now, wait, notfoundTick,
          look, result, waited, diags, trace, id0, created>>

-----------------------------------------------------------------------------
(* Bounds and constants *)

MaxTimeout == 42

Delay == 2
MinTimeout == 1
MaxWait == 2
NotFoundChecks == 20

Nil == "<nil>"

\* aws.ToString / aws.StringValue: the empty string for a nil pointer
awsToString(p) == IF p = Nil THEN "" ELSE p

Ids == {"a1", "a2"}
Names == {Nil, "n1"}
RuleIds == {"r1", "r2"}
VpcIds == {"v1"}
StatusMessages == {Nil, "m1"}

StatusCreating == "CREATING"
StatusComplete == "COMPLETE"
StatusDeleting == "DELETING"
StatusFailed == "FAILED"
Statuses == {StatusCreating, StatusComplete, StatusDeleting, StatusFailed}

TimeoutChoices == {1, 3, MaxTimeout}

-----------------------------------------------------------------------------
(* Errors.  Every error is a record [type, LastError]; NoErr is nil. *)

NoErr == [type |-> "nil", LastError |-> Nil]
Err(t, last) == [type |-> t, LastError |-> last]

ResourceNotFoundException == Err("ResourceNotFoundException", Nil)
InternalServiceErrorException == Err("InternalServiceErrorException", Nil)

\* errs.IsA[*awstypes.ResourceNotFoundException]
IsResourceNotFound(err) == err.type = "ResourceNotFoundException"

\* tfresource.NotFound: a retry.NotFoundError or an empty-result error
NotFound(err) == err.type \in {"NotFoundError", "EmptyResultError"}

\* tfresource.SetLastError: fills the LastError of a timeout or
\* unexpected-state error that has none
SetLastError(err, lastErr) ==
    IF err.type \in {"TimeoutError", "UnexpectedStateError"} /\ err.LastError = Nil
    THEN [err EXCEPT !.LastError = lastErr]
    ELSE err

\* diag.Diagnostics: empty, or one error built by sdkdiag.AppendErrorf
NoDiags == [summary |-> "", cause |-> NoErr]
AppendErrorf(summary, err) == [summary |-> summary, cause |-> err]
HasError(dg) == dg.summary # ""

-----------------------------------------------------------------------------
(* Route53 Resolver rule association: remote side *)

RuleAssociations ==
    [Id : Ids, Name : Names, ResolverRuleId : RuleIds, VPCId : VpcIds,
     Status : Statuses, StatusMessage : StatusMessages]

\* The one element of a set that stands for a non-nil pointer
Deref(s) == CHOOSE x \in s : TRUE

\* conn.GetResolverRuleAssociation: every response the service can give for
\* id while the remote object is rem.  A response is [err, hasOutput, assoc].
GetResolverRuleAssociation(rem, id) ==
    {[err |-> InternalServiceErrorException, hasOutput |-> FALSE, assoc |-> {}],
     [err |-> NoErr, hasOutput |-> FALSE, assoc |-> {}],
     [err |-> NoErr, hasOutput |-> TRUE, assoc |-> {}]}
    \cup (IF \E o \in rem : o.Id = id
          THEN {[err |-> NoErr, hasOutput |-> TRUE, assoc |-> rem]}
          ELSE {[err |-> ResourceNotFoundException, hasOutput |-> FALSE,
                 assoc |-> {}]})

\* A lookup that passes the resource-not-found fault through untranslated
findResolverRuleAssociationByID_NoTranslation(resp) ==
    IF resp.err # NoErr
    THEN [obj |-> {}, err |-> resp.err]
    ELSE IF ~resp.hasOutput \/ resp.assoc = {}
    THEN [obj |-> {}, err |-> Err("EmptyResultError", Nil)]
    ELSE [obj |-> resp.assoc, err |-> NoErr]

\* findResolverRuleAssociationByID, applied to the SDK's response: [obj, err]
findResolverRuleAssociationByID(resp) ==
    IF IsResourceNotFound(resp.err)
    THEN [obj |-> {}, err |-> Err("NotFoundError", resp.err.type)]
    ELSE IF resp.err # NoErr
    THEN [obj |-> {}, err |-> resp.err]
    ELSE IF ~resp.hasOutput \/ resp.assoc = {}
    THEN [obj |-> {}, err |-> Err("EmptyResultError", Nil)]
    ELSE [obj |-> resp.assoc, err |-> NoErr]

\* A refresh function that reports a not-found lookup as an error
statusRuleAssociation_NotFoundIsError(resp) ==
    LET f == findResolverRuleAssociationByID(resp) IN
    IF f.err # NoErr
    THEN [obj |-> {}, state |-> "", err |-> f.err]
    ELSE [obj |-> f.obj, state |-> Deref(f.obj).Status, err |-> NoErr]

\* The retry.StateRefreshFunc built by statusRuleAssociation, applied to the
\* SDK's response: [obj, state, err]
statusRuleAssociation(resp) ==
    LET f == findResolverRuleAssociationByID(resp) IN
    IF NotFound(f.err)
    THEN [obj |-> {}, state |-> "", err |-> NoErr]
    ELSE IF f.err # NoErr
    THEN [obj |-> {}, state |-> "", err |-> f.err]
    ELSE [obj |-> f.obj, state |-> Deref(f.obj).Status, err |-> NoErr]

-----------------------------------------------------------------------------
(* The state-refresh poller, retry.StateChangeConf.WaitForStateContext *)

\* A wait for creation that takes FAILED for a target
CreatedConf_FailedIsTarget ==
    [Pending |-> {StatusCreating}, Target |-> {StatusComplete, StatusFailed}]

CreatedConf == [Pending |-> {StatusCreating}, Target |-> {StatusComplete}]
\* A wait for deletion that takes COMPLETE for a pending status
DeletedConf_CompletePending ==
    [Pending |-> {StatusDeleting, StatusComplete}, Target |-> {}]

DeletedConf == [Pending |-> {StatusDeleting}, Target |-> {}]

NoResult == [obj |-> {}, state |-> "", err |-> NoErr]
NoWait == [end |-> "none", obj |-> {}, err |-> NoErr]

\* A retry interval that stays zero
NextWait_Zero(w) == 0

\* The retry interval after a refresh that asks to go on: doubled, then kept
\* between MinTimeout and MaxWait
NextWait(w) ==
    IF 2 * w < MinTimeout THEN MinTimeout
    ELSE IF 2 * w > MaxWait THEN MaxWait
    ELSE 2 * w

\* One turn of the refresh loop on the refresh result r, with tick empty
\* refreshes before it: go on, reach the target, or fail
PollStep(conf, r, tick) ==
    IF r.err # NoErr
    THEN [end |-> "error", obj |-> r.obj, err |-> r.err, tick |-> tick]
    ELSE IF r.obj = {} /\ conf.Target = {}
    THEN [end |-> "done", obj |-> {}, err |-> NoErr, tick |-> tick]
    ELSE IF r.obj = {}
    THEN IF tick + 1 > NotFoundChecks
         THEN [end |-> "error", obj |-> {}, err |-> Err("NotFoundError", Nil),
               tick |-> tick + 1]
         ELSE [end |-> "continue", obj |-> {}, err |-> NoErr, tick |-> tick + 1]
    ELSE IF r.state \in conf.Target
    THEN [end |-> "done", obj |-> r.obj, err |-> NoErr, tick |-> 0]
    ELSE IF r.state \in conf.Pending
    THEN [end |-> "continue", obj |-> r.obj, err |-> NoErr, tick |-> 0]
    ELSE IF conf.Pending # {}
    THEN [end |-> "error", obj |-> r.obj,
          err |-> Err("UnexpectedStateError", Nil), tick |-> 0]
    ELSE [end |-> "continue", obj |-> r.obj, err |-> NoErr, tick |-> 0]

\* What WaitForStateContext returns when the timeout fired while the refresh
\* that produced step st was still running: only a reached target counts
AfterTimeout(st) ==
    IF st.end = "done"
    THEN [end |-> "done", obj |-> st.obj, err |-> NoErr]
    ELSE [end |-> "timeout", obj |-> {},
          err |-> Err("TimeoutError",
                      IF st.end = "error" THEN st.err.type ELSE Nil)]

\* The tail of waitRuleAssociationCreated: [obj, err] from what the poller
\* returned
waitRuleAssociationCreated(outputRaw, err) ==
    IF outputRaw # {}
    THEN [obj |-> outputRaw,
          err |-> SetLastError(err, awsToString(Deref(outputRaw).StatusMessage))]
    ELSE [obj |-> {}, err |-> err]

\* The tail of waitRuleAssociationDeleted
waitRuleAssociationDeleted(outputRaw, err) ==
    IF outputRaw # {}
    THEN [obj |-> outputRaw,
          err |-> SetLastError(err, awsToString(Deref(outputRaw).StatusMessage))]
    ELSE [obj |-> {}, err |-> err]

-----------------------------------------------------------------------------
(* Route53 Resolver rule association: handlers *)

RAAttrs == [name : {"", "n1"}, resolver_rule_id : RuleIds, vpc_id : VpcIds]
RAZero == [name |-> "", resolver_rule_id |-> "", vpc_id |-> ""]

\* d.Set of a *string field: the empty string for nil
dSet(p) == IF p = Nil THEN "" ELSE p

NoResp == [err |-> NoErr, hasOutput |-> FALSE, assoc |-> {}]
NoLook == [by |-> "none", resp |-> NoResp, find |-> [obj |-> {}, err |-> NoErr]]

\* A Read that reports a missing object as an error and keeps the ID
resourceRuleAssociationRead_NoClear(dd, f) ==
    IF f.err # NoErr
    THEN [d |-> dd,
          diags |-> AppendErrorf("reading Route53 Resolver Rule Association", f.err)]
    ELSE LET o == Deref(f.obj) IN
         [d |-> [dd EXCEPT !.attrs = [name |-> dSet(o.Name),
                                      resolver_rule_id |-> dSet(o.ResolverRuleId),
                                      vpc_id |-> dSet(o.VPCId)]],
          diags |-> NoDiags]

\* A Read that clears the ID of a missing object on a new resource too
resourceRuleAssociationRead_Unguarded(dd, f) ==
    IF NotFound(f.err)
    THEN [d |-> [dd EXCEPT !.id = ""], diags |-> NoDiags]
    ELSE IF f.err # NoErr
    THEN [d |-> dd,
          diags |-> AppendErrorf("reading Route53 Resolver Rule Association", f.err)]
    ELSE LET o == Deref(f.obj) IN
         [d |-> [dd EXCEPT !.attrs = [name |-> dSet(o.Name),
                                      resolver_rule_id |-> dSet(o.ResolverRuleId),
                                      vpc_id |-> dSet(o.VPCId)]],
          diags |-> NoDiags]

\* A Read that forgets to copy vpc_id
resourceRuleAssociationRead_SkipVpc(dd, f) ==
    IF ~dd.isNew /\ NotFound(f.err)
    THEN [d |-> [dd EXCEPT !.id = ""], diags |-> NoDiags]
    ELSE IF f.err # NoErr
    THEN [d |-> dd,
          diags |-> AppendErrorf("reading Route53 Resolver Rule Association", f.err)]
    ELSE LET o == Deref(f.obj) IN
         [d |-> [dd EXCEPT !.attrs = [name |-> dSet(o.Name),
                                      resolver_rule_id |-> dSet(o.ResolverRuleId),
                                      vpc_id |-> dd.attrs.vpc_id]],
          diags |-> NoDiags]

\* resourceRuleAssociationRead on the record dd, given what the lookup
\* returned: the record and the diagnostics it leaves
resourceRuleAssociationRead(dd, f) ==
    IF ~dd.isNew /\ NotFound(f.err)
    THEN [d |-> [dd EXCEPT !.id = ""], diags |-> NoDiags]
    ELSE IF f.err # NoErr
    THEN [d |-> dd,
          diags |-> AppendErrorf("reading Route53 Resolver Rule Association", f.err)]
    ELSE LET o == Deref(f.obj) IN
         [d |-> [dd EXCEPT !.attrs = [name |-> dSet(o.Name),
                                      resolver_rule_id |-> dSet(o.ResolverRuleId),
                                      vpc_id |-> dSet(o.VPCId)]],
          diags |-> NoDiags]

\* The poller's variables as WaitForStateContext starts
PollStart ==
    /\ now' = Delay
    /\ wait' = 0
    /\ notfoundTick' = 0
    /\ result' = NoResult
    /\ waited' = NoWait

\* resourceRuleAssociationCreate up to the start of the wait: the host calls
\* it on a record without ID, marked new
resourceRuleAssociationCreate ==
    /\ kind = "ra" /\ pc = "idle" /\ d.id = ""
    /\ op' = "create" /\ id0' = d.id
    /\ \E t \in TimeoutChoices : timeout' = t
    /\ look' = NoLook
    /\ \/ \* AssociateResolverRule fails
          /\ d' = [d EXCEPT !.isNew = TRUE]
          /\ diags' = AppendErrorf("creating Route53 Resolver Rule Association",
                                   InternalServiceErrorException)
          /\ trace' = <<"create">>
          /\ pc' = "done"
          /\ UNCHANGED <<remote, now, wait, notfoundTick, result, waited, created>>
       \/ \* AssociateResolverRule succeeds and returns the new association
          /\ remote = {}
          /\ \E newId \in Ids, st \in {StatusCreating, StatusComplete},
                msg \in StatusMessages :
                /\ remote' = {[Id |-> newId,
                               Name |-> IF d.attrs.name = "" THEN Nil
                                        ELSE d.attrs.name,
                               ResolverRuleId |-> d.attrs.resolver_rule_id,
                               VPCId |-> d.attrs.vpc_id,
                               Status |-> st, StatusMessage |-> msg]}
                /\ d' = [d EXCEPT !.isNew = TRUE, !.id = awsToString(newId)]
                /\ created' = newId
          /\ diags' = NoDiags
          /\ trace' = <<"create", "SetId", "wait">>
          /\ pc' = "create_wait"
          /\ PollStart
    /\ UNCHANGED <<kind, config>>

\* What the handler does with what the poller returned
WaitReturns(w) ==
    LET t == IF pc = "create_wait"
             THEN waitRuleAssociationCreated(w.obj, w.err)
             ELSE waitRuleAssociationDeleted(w.obj, w.err)
    IN  /\ waited' = w
        /\ IF t.err # NoErr
           THEN /\ diags' = AppendErrorf(
                              IF pc = "create_wait"
                              THEN "waiting for Route53 Resolver Rule Association create"
                              ELSE "waiting for Route53 Resolver Rule Association delete",
                              t.err)
                /\ pc' = "done"
           ELSE /\ diags' = NoDiags
                /\ pc' = IF pc = "create_wait" THEN "create_read" ELSE "done"

\* The refresh loop calls Refresh; late: the timeout fired while it ran
PollRefresh(late) ==
    /\ kind = "ra" /\ pc \in {"create_wait", "delete_wait"}
    /\ now <= timeout
    /\ \E resp \in GetResolverRuleAssociation(remote, d.id) :
          LET r == statusRuleAssociation(resp)
              st == PollStep(IF pc = "create_wait" THEN CreatedConf ELSE DeletedConf,
                             r, notfoundTick)
          IN  /\ look' = [by |-> "refresh", resp |-> resp,
                          find |-> findResolverRuleAssociationByID(resp)]
              /\ result' = r
              /\ notfoundTick' = st.tick
              /\ IF late
                 THEN /\ WaitReturns(AfterTimeout(st))
                      /\ UNCHANGED <<now, wait>>
                 ELSE IF st.end = "continue"
                 THEN /\ wait' = NextWait(wait)
                      /\ now' = now + NextWait(wait)
                      /\ UNCHANGED <<pc, waited, diags>>
                 ELSE /\ WaitReturns([end |-> st.end, obj |-> st.obj, err |-> st.err])
                      /\ UNCHANGED <<now, wait>>
    /\ UNCHANGED <<kind, config, d, remote, op, timeout, trace, id0, created>>

PollRefreshInTime == PollRefresh(FALSE)
PollRefreshLate == PollRefresh(TRUE)

\* The timeout fires while the refresh loop sleeps
PollTimeout ==
    /\ kind = "ra" /\ pc \in {"create_wait", "delete_wait"}
    /\ now >= timeout
    /\ WaitReturns([end |-> "timeout", obj |-> {}, err |-> Err("TimeoutError", Nil)])
    /\ UNCHANGED <<kind, config, d, remote, op, timeout, now, wait, notfoundTick,
                   look, result, trace, id0, created>>

\* resourceRuleAssociationCreate after the wait: it runs Read
resourceRuleAssociationCreateRead ==
    /\ kind = "ra" /\ pc = "create_read"
    /\ \E resp \in GetResolverRuleAssociation(remote, d.id) :
          LET f == findResolverRuleAssociationByID(resp)
              out == resourceRuleAssociationRead(d, f)
          IN  /\ look' = [by |-> "read", resp |-> resp, find |-> f]
              /\ d' = out.d
              /\ diags' = out.diags
    /\ trace' = Append(trace, "Read")
    /\ pc' = "done"
    /\ UNCHANGED <<kind, config, remote, op, timeout, now, wait, notfoundTick,
                   result, waited, id0, created>>

\* The host calls resourceRuleAssociationRead on a record with an ID
RARead ==
    /\ kind = "ra" /\ pc = "idle" /\ d.id # ""
    /\ op' = "read" /\ id0' = d.id
    /\ \E resp \in GetResolverRuleAssociation(remote, d.id) :
          LET f == findResolverRuleAssociationByID(resp)
              out == resourceRuleAssociationRead(d, f)
          IN  /\ look' = [by |-> "read", resp |-> resp, find |-> f]
              /\ d' = out.d
              /\ diags' = out.diags
    /\ trace' = <<"Read">>
    /\ pc' = "done"
    /\ UNCHANGED <<kind, config, remote, timeout, now, wait, notfoundTick,
                   result, waited, created>>

\* conn.DisassociateResolverRule for the rule and VPC of the local record
DisassociateResolverRule(rem, attrs) ==
    {InternalServiceErrorException}
    \cup (IF \E o \in rem : /\ o.ResolverRuleId = attrs.resolver_rule_id
                            /\ o.VPCId = attrs.vpc_id
          THEN {NoErr}
          ELSE {ResourceNotFoundException})

\* A Delete that reports an association that is already gone as an error
RADeleteOutcome_NotFoundIsError(err) ==
    IF err # NoErr
    THEN [diags |-> AppendErrorf("deleting Route53 Resolver Rule Association", err),
          trace |-> <<"delete">>, next |-> "done"]
    ELSE [diags |-> NoDiags, trace |-> <<"delete", "wait">>, next |-> "delete_wait"]

\* resourceRuleAssociationDelete up to the start of the wait: what it returns
\* after DisassociateResolverRule ended with err, "delete_wait" when it goes
\* on to wait
RADeleteOutcome(err) ==
    IF IsResourceNotFound(err)
    THEN [diags |-> NoDiags, trace |-> <<"delete">>, next |-> "done"]
    ELSE IF err # NoErr
    THEN [diags |-> AppendErrorf("deleting Route53 Resolver Rule Association", err),
          trace |-> <<"delete">>, next |-> "done"]
    ELSE [diags |-> NoDiags, trace |-> <<"delete", "wait">>, next |-> "delete_wait"]

resourceRuleAssociationDelete ==
    /\ kind = "ra" /\ pc = "idle" /\ d.id # ""
    /\ op' = "delete" /\ id0' = d.id
    /\ \E t \in TimeoutChoices : timeout' = t
    /\ \E err \in DisassociateResolverRule(remote, d.attrs) :
          LET out == RADeleteOutcome(err)
          IN  /\ look' = [by |-> "delete",
                          resp |-> [err |-> err, hasOutput |-> FALSE, assoc |-> {}],
                          find |-> NoLook.find]
              /\ diags' = out.diags
              /\ trace' = out.trace
              /\ pc' = out.next
              /\ remote' = IF err = NoErr
                           THEN {[o EXCEPT !.Status = StatusDeleting] : o \in remote}
                           ELSE remote
              /\ IF out.next = "delete_wait"
                 THEN PollStart
                 ELSE UNCHANGED <<now, wait, notfoundTick, result, waited>>
    /\ UNCHANGED <<kind, config, d, created>>

-----------------------------------------------------------------------------
(* RDS automated backup replication *)

KmsKeyIds == {Nil, "k1"}
RetentionPeriods == {7, 14}
ValidArns == {"arn:aws:rds:r1:1:db:s1"}
DBInstanceArns == ValidArns \cup {"s2"}

Backups ==
    [Arn : Ids, KmsKeyId : KmsKeyIds, BackupRetentionPeriod : RetentionPeriods,
     DBInstanceArn : DBInstanceArns]

BRAttrs == [kms_key_id : {"", "k1"}, retention_period : {7},
            source_db_instance_arn : ValidArns]
BRZero == [kms_key_id |-> "", retention_period |-> 0,
           source_db_instance_arn |-> ""]

\* arn.Parse succeeds
ArnParses(a) == a \in ValidArns

\* FindDBInstanceAutomatedBackupByARN: every [obj, err] it can return for id
\* while the remote object is rem
FindDBInstanceAutomatedBackupByARN(rem, id) ==
    {[obj |-> {}, err |-> Err("InternalFailure", Nil)]}
    \cup (IF \E o \in rem : o.Arn = id
          THEN {[obj |-> rem, err |-> NoErr]}
          ELSE {[obj |-> {}, err |-> Err("NotFoundError", Nil)]})

\* waitDBInstanceAutomatedBackupCreated and waitDBInstanceAutomatedBackupDeleted:
\* the errors the wait can end with; it ends without error only when the
\* object is there (created), or gone (deleted)
WaitDBInstanceAutomatedBackup(rem, id, wantPresent) ==
    {Err("TimeoutError", Nil)}
    \cup (IF (\E o \in rem : o.Arn = id) = wantPresent THEN {NoErr} ELSE {})

\* resourceInstanceAutomatedBackupReplicationRead on the record dd, given what
\* the lookup returned
resourceInstanceAutomatedBackupReplicationRead(dd, f) ==
    IF ~dd.isNew /\ NotFound(f.err)
    THEN [d |-> [dd EXCEPT !.id = ""], diags |-> NoDiags]
    ELSE IF f.err # NoErr
    THEN [d |-> dd,
          diags |-> AppendErrorf("error reading RDS instance automated backup replication",
                                 f.err)]
    ELSE LET o == Deref(f.obj) IN
         [d |-> [dd EXCEPT !.attrs = [kms_key_id |-> dSet(o.KmsKeyId),
                                      retention_period |-> o.BackupRetentionPeriod,
                                      source_db_instance_arn |-> dSet(o.DBInstanceArn)]],
          diags |-> NoDiags]

\* resourceInstanceAutomatedBackupReplicationCreate up to the wait
resourceInstanceAutomatedBackupReplicationCreate ==
    /\ kind = "br" /\ pc = "idle" /\ d.id = ""
    /\ op' = "create" /\ id0' = d.id
    /\ look' = NoLook
    /\ \/ \* StartDBInstanceAutomatedBackupsReplication fails
          /\ d' = [d EXCEPT !.isNew = TRUE]
          /\ diags' = AppendErrorf("error starting RDS instance automated backup replication",
                                   Err("InternalFailure", Nil))
          /\ trace' = <<"create">>
          /\ pc' = "done"
          /\ UNCHANGED <<remote, created>>
       \/ \* it succeeds and returns the new automated backup
          /\ remote = {}
          /\ \E newId \in Ids, kms \in KmsKeyIds :
                /\ d.attrs.kms_key_id # "" => kms = d.attrs.kms_key_id
                /\ remote' = {[Arn |-> newId, KmsKeyId |-> kms,
                               BackupRetentionPeriod |-> d.attrs.retention_period,
                               DBInstanceArn |-> d.attrs.source_db_instance_arn]}
                /\ d' = [d EXCEPT !.isNew = TRUE, !.id = awsToString(newId)]
                /\ created' = newId
          /\ diags' = NoDiags
          /\ trace' = <<"create", "SetId", "wait">>
          /\ pc' = "br_create_wait"
    /\ UNCHANGED <<kind, config, timeout, now, wait, notfoundTick, result, waited>>

\* resourceInstanceAutomatedBackupReplicationCreate: the wait returns
BRCreateWaited ==
    /\ kind = "br" /\ pc = "br_create_wait"
    /\ \E err \in WaitDBInstanceAutomatedBackup(remote, d.id, TRUE) :
          /\ waited' = [end |-> IF err = NoErr THEN "done" ELSE "timeout",
                        obj |-> {}, err |-> err]
          /\ IF err # NoErr
             THEN /\ diags' = AppendErrorf("error waiting for DB instance automated backup create",
                                           err)
                  /\ pc' = "done"
             ELSE /\ diags' = NoDiags
                  /\ pc' = "create_read"
    /\ UNCHANGED <<kind, config, d, remote, op, timeout, now, wait, notfoundTick,
                   look, result, trace, id0, created>>

\* resourceInstanceAutomatedBackupReplicationCreate after the wait: it runs Read
resourceInstanceAutomatedBackupReplicationCreateRead ==
    /\ kind = "br" /\ pc = "create_read"
    /\ \E f \in FindDBInstanceAutomatedBackupByARN(remote, d.id) :
          LET out == resourceInstanceAutomatedBackupReplicationRead(d, f)
          IN  /\ look' = [by |-> "read", resp |-> NoResp, find |-> f]
              /\ d' = out.d
              /\ diags' = out.diags
    /\ trace' = Append(trace, "Read")
    /\ pc' = "done"
    /\ UNCHANGED <<kind, config, remote, op, timeout, now, wait, notfoundTick,
                   result, waited, id0, created>>

\* The host calls resourceInstanceAutomatedBackupReplicationRead on a record
\* with an ID
BRRead ==
    /\ kind = "br" /\ pc = "idle" /\ d.id # ""
    /\ op' = "read" /\ id0' = d.id
    /\ \E f \in FindDBInstanceAutomatedBackupByARN(remote, d.id) :
          LET out == resourceInstanceAutomatedBackupReplicationRead(d, f)
          IN  /\ look' = [by |-> "read", resp |-> NoResp, find |-> f]
              /\ d' = out.d
              /\ diags' = out.diags
    /\ trace' = <<"Read">>
    /\ pc' = "done"
    /\ UNCHANGED <<kind, config, remote, timeout, now, wait, notfoundTick,
                   result, waited, created>>

\* resourceInstanceAutomatedBackupReplicationDelete up to the wait: what it
\* returns after the lookup f and the stop call's error stopErr, "wait" when
\* it goes on to wait
BRDeleteOutcome(f, stopErr) ==
    IF NotFound(f.err)
    THEN [diags |-> NoDiags, trace |-> <<"lookup">>, next |-> "done"]
    ELSE IF f.err # NoErr
    THEN [diags |-> AppendErrorf("error reading RDS instance automated backup replication",
                                 f.err),
          trace |-> <<"lookup">>, next |-> "done"]
    ELSE IF ~ArnParses(awsToString(Deref(f.obj).DBInstanceArn))
    THEN [diags |-> AppendErrorf("arn: invalid prefix", Err("ArnParse", Nil)),
          trace |-> <<"lookup">>, next |-> "done"]
    ELSE IF stopErr # NoErr
    THEN [diags |-> AppendErrorf("error stopping RDS instance automated backup replication",
                                 stopErr),
          trace |-> <<"lookup", "delete">>, next |-> "done"]
    ELSE [diags |-> NoDiags, trace |-> <<"lookup", "delete", "wait">>,
          next |-> "br_delete_wait"]

resourceInstanceAutomatedBackupReplicationDelete ==
    /\ kind = "br" /\ pc = "idle" /\ d.id # ""
    /\ op' = "delete" /\ id0' = d.id
    /\ \E f \in FindDBInstanceAutomatedBackupByARN(remote, d.id),
          stopErr \in {NoErr, Err("InternalFailure", Nil)} :
          LET out == BRDeleteOutcome(f, stopErr)
          IN  /\ look' = [by |-> "delete", resp |-> NoResp, find |-> f]
              /\ diags' = out.diags
              /\ trace' = out.trace
              /\ pc' = out.next
    /\ UNCHANGED <<kind, config, d, remote, timeout, now, wait, notfoundTick,
                   result, waited, created>>

\* resourceInstanceAutomatedBackupReplicationDelete: the wait returns
BRDeleteWaited ==
    /\ kind = "br" /\ pc = "br_delete_wait"
    /\ \E err \in WaitDBInstanceAutomatedBackup(remote, d.id, FALSE) :
          /\ waited' = [end |-> IF err = NoErr THEN "done" ELSE "timeout",
                        obj |-> {}, err |-> err]
          /\ diags' = IF err # NoErr
                      THEN AppendErrorf("error waiting for DB instance automated backup delete",
                                        err)
                      ELSE NoDiags
          /\ pc' = "done"
    /\ UNCHANGED <<kind, config, d, remote, op, timeout, now, wait, notfoundTick,
                   look, result, trace, id0, created>>

-----------------------------------------------------------------------------
(* The host and the service *)

\* The handler has returned; the host keeps the record, drops it after a
\* successful delete, and plans from the configuration when it has no ID
Return ==
    /\ pc = "done"
    /\ pc' = "idle"
    /\ d' = IF (op = "delete" /\ ~HasError(diags)) \/ d.id = ""
            THEN [id |-> "", isNew |-> FALSE, attrs |-> config]
            ELSE [d EXCEPT !.isNew = FALSE]
    /\ timeout' = 0 /\ now' = 0 /\ wait' = 0 /\ notfoundTick' = 0
    /\ look' = NoLook /\ result' = NoResult /\ waited' = NoWait
    /\ diags' = NoDiags /\ trace' = <<>> /\ id0' = "" /\ created' = ""
    /\ UNCHANGED <<kind, config, remote, op>>

\* The service changes the remote object on its own, or it disappears; while
\* a wait runs only its status and status message change
RARemoteStep ==
    /\ kind = "ra" /\ pc # "done" /\ remote # {}
    /\ \E next \in {{}} \cup {{o} : o \in RuleAssociations} :
          /\ next # remote
          /\ \A o \in next : o.Id = Deref(remote).Id
          /\ pc \in {"create_wait", "delete_wait"} =>
                \A o \in next : /\ o.Name = Deref(remote).Name
                                /\ o.ResolverRuleId = Deref(remote).ResolverRuleId
          /\ remote' = next
    /\ UNCHANGED <<kind, config, d, pc, op, timeout, now, wait, notfoundTick,
                   look, result, waited, diags, trace, id0, created>>

\* The same for the automated backup
BRRemoteStep ==
    /\ kind = "br" /\ pc # "done" /\ remote # {}
    /\ \E next \in {{}} \cup {{o} : o \in Backups} :
          /\ next # remote
          /\ \A o \in next : o.Arn = Deref(remote).Arn
          /\ pc \in {"br_create_wait", "br_delete_wait"} => next = {}
          /\ remote' = next
    /\ UNCHANGED <<kind, config, d, pc, op, timeout, now, wait, notfoundTick,
                   look, result, waited, diags, trace, id0, created>>

\* A planned resource without ID, or an imported one with nothing but its ID
Init ==
    /\ kind \in {"ra", "br"}
    /\ config \in IF kind = "ra" THEN RAAttrs ELSE BRAttrs
    /\ d \in {[id |-> "", isNew |-> FALSE, attrs |-> config]}
             \cup {[id |-> i, isNew |-> FALSE,
                    attrs |-> IF kind = "ra" THEN RAZero ELSE BRZero] : i \in Ids}
    /\ remote \in {{}} \cup {{o} : o \in IF kind = "ra" THEN RuleAssociations
                                                        ELSE Backups}
    /\ pc = "idle" /\ op = "none"
    /\ timeout = 0 /\ now = 0 /\ wait = 0 /\ notfoundTick = 0
    /\ look = NoLook /\ result = NoResult /\ waited = NoWait
    /\ diags = NoDiags /\ trace = <<>> /\ id0 = "" /\ created = ""

Next ==
    \/ resourceRuleAssociationCreate
    \/ PollRefreshInTime
    \/ PollRefreshLate
    \/ PollTimeout
    \/ resourceRuleAssociationCreateRead
    \/ RARead
    \/ resourceRuleAssociationDelete
    \/ resourceInstanceAutomatedBackupReplicationCreate
    \/ BRCreateWaited
    \/ resourceInstanceAutomatedBackupReplicationCreateRead
    \/ BRRead
    \/ resourceInstanceAutomatedBackupReplicationDelete
    \/ BRDeleteWaited
    \/ Return
    \/ RARemoteStep
    \/ BRRemoteStep

Spec == Init /\ [][Next]_vars

\* The steps of a running handler.  The host runs a handler to its end: the
\* SDK calls return, the timers of the poller fire.
HandlerStep ==
    \/ PollRefreshInTime
    \/ PollRefreshLate
    \/ PollTimeout
    \/ resourceRuleAssociationCreateRead
    \/ BRCreateWaited
    \/ resourceInstanceAutomatedBackupReplicationCreateRead
    \/ BRDeleteWaited

\* One configuration of each resource
FairInit ==
    /\ Init
    /\ config \in {[name |-> "n1", resolver_rule_id |-> "r1", vpc_id |-> "v1"],
                   [kms_key_id |-> "k1", retention_period |-> 7,
                    source_db_instance_arn |-> "arn:aws:rds:r1:1:db:s1"]}

FairSpec == FairInit /\ [][Next]_vars /\ WF_vars(HandlerStep)

-----------------------------------------------------------------------------
(* Properties *)

Has(seq, e) == \E i \in 1..Len(seq) : seq[i] = e
IsPrefix(p, q) == Len(p) <= Len(q) /\ \A i \in 1..Len(p) : p[i] = q[i]

\* A Read has just returned after a lookup that reported not found
ReadFoundNothing ==
    pc = "done" /\ look.by = "read" /\ NotFound(look.find.err)

\* C1, as stated: every Read whose lookup reports not found clears the local
\* ID and returns no error, the Read at the end of Create included.
C1_EveryReadClears ==
    ReadFoundNothing => (d.id = "" /\ ~HasError(diags))

\* C1, amended: a Read whose lookup reports not found clears the local ID and
\* returns no error when the resource is not marked new; in the Read at the
\* end of Create (the resource is new) it returns an error and keeps the ID.
C1_ReadClearsUnlessNew ==
    ReadFoundNothing =>
        /\ ~d.isNew => (d.id = "" /\ ~HasError(diags))
        /\ d.isNew => (d.id = created /\ d.id # "" /\ HasError(diags))

C1_Witness ==
    /\ ReadFoundNothing /\ op = "read" /\ id0 # "" /\ d.id = ""

\* The attributes a local record mirrors of the remote object o
Mirror(o) ==
    IF kind = "ra"
    THEN [name |-> awsToString(o.Name),
          resolver_rule_id |-> awsToString(o.ResolverRuleId),
          vpc_id |-> awsToString(o.VPCId)]
    ELSE [kms_key_id |-> awsToString(o.KmsKeyId),
          retention_period |-> o.BackupRetentionPeriod,
          source_db_instance_arn |-> awsToString(o.DBInstanceArn)]

\* C2: a Read whose lookup succeeds leaves every attribute of the local
\* record equal to the remote object's, keeps the local ID, changes nothing
\* remote and returns no error; a second Read of an unchanged remote object
\* therefore leaves the same record.
C2_ReadMirrorsRemote ==
    [][(pc # "done" /\ pc' = "done" /\ look'.by = "read" /\ look'.find.err = NoErr)
        => /\ remote # {} /\ remote' = remote
           /\ d'.attrs = Mirror(Deref(remote))
           /\ d'.id = d.id /\ d'.id # ""
           /\ ~HasError(diags')]_vars

C2_Witness ==
    /\ kind = "ra" /\ pc = "done" /\ op = "read" /\ look.by = "read"
    /\ look.find.err = NoErr /\ id0 = d.id
    /\ d.attrs.name = "n1" /\ d.attrs # config

CreateOrder == <<"create", "SetId", "wait", "Read">>

\* C3: Create calls the service, then stores the identifier, then waits, then
\* reads, in that order; the rule association's Create goes on to Read, and
\* returns without error, only after the poller observed COMPLETE for its ID;
\* while it polls the last status observed is CREATING; after any other
\* status, a refresh error or a timeout it returns an error and reads nothing.
C3_CreateOrder ==
    (op = "create" /\ pc # "idle") =>
        /\ IsPrefix(trace, CreateOrder)
        /\ Has(trace, "SetId") <=> d.id # ""
        /\ pc = "create_read" => trace = <<"create", "SetId", "wait">>
        /\ (pc = "done" /\ ~HasError(diags)) => trace = CreateOrder
        /\ (pc = "create_read" \/ Has(trace, "Read")) => waited.end = "done"
        /\ kind = "ra" =>
            /\ (pc = "create_read" \/ Has(trace, "Read")) =>
                  /\ result.obj # {} /\ result.err = NoErr
                  /\ result.state = StatusComplete
                  /\ Deref(result.obj).Id = d.id
            /\ (pc = "create_wait" /\ result.obj # {}) =>
                  result.state = StatusCreating
            /\ (pc = "create_wait" /\ now > Delay) => result.err = NoErr
            /\ (pc = "done" /\ waited.end # "none"
                  /\ \/ result.err # NoErr
                     \/ waited.end = "timeout"
                     \/ result.obj # {} /\ result.state \notin {StatusCreating,
                                                                 StatusComplete})
               => (HasError(diags) /\ ~Has(trace, "Read"))

C3_Witness ==
    /\ kind = "ra" /\ op = "create" /\ pc = "done" /\ ~HasError(diags)
    /\ trace = CreateOrder /\ now > Delay /\ result.state = StatusComplete

\* C4: Delete takes a remote object that is already gone for success.  Rule
\* association: after a resource-not-found fault of DisassociateResolverRule
\* it returns no error and does not wait; backup replication: after a lookup
\* that reports not found it returns no error and neither stops nor waits.
\* After any other error of that first call it returns an error and does not
\* wait.
C4_DeleteOfAbsent ==
    (op = "delete" /\ pc # "idle" /\ look.by = "delete") =>
        LET err == IF kind = "ra" THEN look.resp.err ELSE look.find.err
            gone == IF kind = "ra" THEN IsResourceNotFound(err) ELSE NotFound(err)
            first == IF kind = "ra" THEN <<"delete">> ELSE <<"lookup">>
        IN  /\ gone => (pc = "done" /\ ~HasError(diags) /\ trace = first)
            /\ (err # NoErr /\ ~gone) =>
                  (pc = "done" /\ HasError(diags) /\ trace = first)

C4_Witness ==
    /\ kind = "ra" /\ op = "delete" /\ pc = "done" /\ look.by = "delete"
    /\ IsResourceNotFound(look.resp.err) /\ ~HasError(diags)

\* C5: after a successful DisassociateResolverRule, Delete returns without
\* error only after the poller found the association absent; while it polls
\* the last status observed is DELETING; after any other status it returns an
\* error.
C5_DeleteWaits ==
    (kind = "ra" /\ op = "delete" /\ Has(trace, "wait")) =>
        /\ (pc = "done" /\ ~HasError(diags)) =>
              /\ waited.end = "done"
              /\ result.obj = {} /\ result.err = NoErr
              /\ NotFound(look.find.err)
        /\ (pc = "delete_wait" /\ result.obj # {}) => result.state = StatusDeleting
        /\ (pc = "done" /\ result.obj # {} /\ result.state # StatusDeleting) =>
              HasError(diags)
        /\ pc \in {"delete_wait", "done"}

C5_Witness ==
    /\ kind = "ra" /\ op = "delete" /\ pc = "done" /\ Has(trace, "wait")
    /\ ~HasError(diags) /\ now > Delay /\ result.obj = {}

\* C6: findResolverRuleAssociationByID turns a resource-not-found fault, and
\* a response without an association, into a not-found error and no object;
\* returns any other SDK error as it is, never as not found; returns the
\* association of a response that has one, without error; and returns either
\* an object or an error, never both and never neither.
C6_FindClassifies ==
    (kind = "ra" /\ look.by \in {"read", "refresh"}) =>
        LET r == look.resp
            f == look.find
        IN  /\ (IsResourceNotFound(r.err) \/ (r.err = NoErr /\ r.assoc = {})) =>
                  (NotFound(f.err) /\ f.obj = {})
            /\ (r.err # NoErr /\ ~IsResourceNotFound(r.err)) =>
                  (f.err = r.err /\ ~NotFound(f.err) /\ f.obj = {})
            /\ (r.err = NoErr /\ r.assoc # {}) =>
                  (f.obj = r.assoc /\ f.err = NoErr)
            /\ (f.obj = {}) # (f.err = NoErr)

C6_Witness ==
    /\ kind = "ra" /\ look.by = "read"
    /\ look.resp.err = NoErr /\ look.resp.hasOutput /\ look.resp.assoc = {}
    /\ NotFound(look.find.err)

\* C7, as stated: when the poll of the rule association ends by timeout, the
\* error the handler returns names the status message of the object the
\* poller observed last.
C7_TimeoutNamesStatusMessage ==
    (kind = "ra" /\ pc = "done" /\ waited.end = "timeout" /\ result.obj # {}) =>
        /\ HasError(diags)
        /\ diags.cause.LastError = awsToString(Deref(result.obj).StatusMessage)

\* C8: the refresh function returns the association with its status and no
\* error when the lookup succeeds, nothing at all when the lookup reports not
\* found, and only the error after any other lookup error; a status comes
\* only with an object.
C8_RefreshShape ==
    (kind = "ra" /\ look.by = "refresh") =>
        LET f == look.find IN
        /\ f.err = NoErr =>
              result = [obj |-> f.obj, state |-> Deref(f.obj).Status, err |-> NoErr]
        /\ NotFound(f.err) => result = [obj |-> {}, state |-> "", err |-> NoErr]
        /\ (f.err # NoErr /\ ~NotFound(f.err)) =>
              result = [obj |-> {}, state |-> "", err |-> f.err]
        /\ result.state # "" => result.obj # {}

C8_Witness ==
    /\ kind = "ra" /\ look.by = "refresh" /\ pc = "create_wait"
    /\ NotFound(look.find.err) /\ notfoundTick > 0 /\ result.err = NoErr

C10_IdIffCreated ==
    (op = "create" /\ pc # "idle") =>
        /\ created = "" =>
              (pc = "done" /\ d.id = "" /\ HasError(diags) /\ trace = <<"create">>)
        /\ created # "" => (d.id = created /\ Has(trace, "SetId"))

C10_Witness ==
    /\ op = "create" /\ pc = "done" /\ Has(trace, "Read")
    /\ NotFound(look.find.err) /\ created # "" /\ d.id = created

====
